---- MODULE Spec2Model ----
(***************************************************************************)
(* Model of the FlinkCluster admission validator                           *)
(* (api/v1alpha1/flinkcluster_validate.go).                                *)
(*                                                                         *)
(* A Go pointer is modelled as a sequence of length at most one: <<>> is   *)
(* the nil pointer, <<v>> points to v.  A Go error is modelled by its      *)
(* message; NoError is the nil error.  A run-time panic (nil dereference)  *)
(* is modelled by the distinguished outcome NilDereference, which is not   *)
(* a returned error but is propagated to the caller of ValidateCreate.     *)
(***************************************************************************)
EXTENDS Integers, Sequences, FiniteSets, TLC

VARIABLES
    cluster,        \* the FlinkCluster handed to ValidateCreate
    createResult,   \* outcome of ValidateCreate(cluster), or NotCalled
    initial,        \* the FlinkCluster first stored
    stored,         \* the FlinkCluster currently stored
    new,            \* the FlinkCluster of the update request in progress
    updateResult,   \* outcome of ValidateUpdate(stored, new), or NotCalled
    edits,          \* number of single-field changes made to the request
    pc              \* position of the admission boundary

vars == <<cluster, createResult, initial, stored, new, updateResult, edits, pc>>

----------------------------------------------------------------------------
(* Bounds of the model. *)

\* Number of fields in which a create request may deviate from BaseCluster.
MaxEdits == 2

\* Number of fields in which an update request may deviate from the stored
\* cluster.
MaxChanges == 2

----------------------------------------------------------------------------
(* Pointers and errors. *)

NilPtr == <<>>

Ptr(v) == <<v>>

NoError == "nil"

NotCalled == "not called"

\* Outcome of dereferencing a nil pointer: the goroutine panics.
NilDereference == "panic: runtime error: invalid memory address or nil pointer dereference"

\* resource.MustParse("1Mi").Value()
Mi == 1048576

\* The lowest port number that is not accepted is PortFloor; ports must be
\* strictly greater.
PortFloor == 1024

----------------------------------------------------------------------------
(* The create path. *)

validateMeta(meta) ==
    IF meta.Name = "" THEN "cluster name is unspecified"
    ELSE IF meta.Namespace = "" THEN "cluster namesapce is unspecified"
    ELSE NoError

validateImage(imageSpec) ==
    IF imageSpec.Name = "" THEN "image name is unspecified"
    ELSE IF imageSpec.PullPolicy \notin {"Always", "IfNotPresent", "Never"}
         THEN "invalid image pullPolicy: " \o imageSpec.PullPolicy
    ELSE NoError

validatePort(port, name, component) ==
    IF port = NilPtr
    THEN component \o " " \o name \o " port is unspecified"
    ELSE IF port[1] <= PortFloor
    THEN "invalid " \o component \o " " \o name \o " port: "
             \o ToString(port[1]) \o ", must be > 1024"
    ELSE NoError

\* math.Floor(float64(Resources.Limits.Memory().Value()) / float64(1Mi)),
\* converted to int32; the quotients of the model fit in an int32.
jmMemLimit(jmSpec) == jmSpec.Resources.Limits.Memory \div Mi

\* Lines 163-170.  The first branch is taken when the minimum IS present;
\* the second branch dereferences the pointer in the only case left, in
\* which it is nil.
validateMemoryOffHeapMin(jmSpec) ==
    IF jmSpec.MemoryOffHeapMin # NilPtr
    THEN "invalid JobManager memory configuration, MemoryOffHeapMin is not specified"
    ELSE IF jmSpec.MemoryOffHeapMin = NilPtr
    THEN NilDereference
    ELSE IF jmSpec.MemoryOffHeapMin[1] > jmMemLimit(jmSpec)
    THEN "invalid JobManager memory configuration, memory limit must be larger than MemoryOffHeapMin"
    ELSE NoError

validateJobManager(jmSpec) ==
    IF jmSpec.Replicas = NilPtr \/ jmSpec.Replicas[1] # 1
    THEN "invalid JobManager replicas, it must be 1"
    ELSE IF jmSpec.AccessScope \notin {"Cluster", "VPC", "External"}
    THEN "invalid JobManager access scope: " \o jmSpec.AccessScope
    ELSE IF validatePort(jmSpec.Ports.RPC, "rpc", "jobmanager") # NoError
    THEN validatePort(jmSpec.Ports.RPC, "rpc", "jobmanager")
    ELSE IF validatePort(jmSpec.Ports.Blob, "blob", "jobmanager") # NoError
    THEN validatePort(jmSpec.Ports.Blob, "blob", "jobmanager")
    ELSE IF validatePort(jmSpec.Ports.Query, "query", "jobmanager") # NoError
    THEN validatePort(jmSpec.Ports.Query, "query", "jobmanager")
    ELSE IF validatePort(jmSpec.Ports.UI, "ui", "jobmanager") # NoError
    THEN validatePort(jmSpec.Ports.UI, "ui", "jobmanager")
    ELSE IF \/ jmSpec.MemoryOffHeapRatio = NilPtr
            \/ jmSpec.MemoryOffHeapRatio[1] > 100
            \/ jmSpec.MemoryOffHeapRatio[1] < 0
    THEN "invalid JobManager memoryOffHeapRatio, it must be between 0 and 100"
    ELSE validateMemoryOffHeapMin(jmSpec)

validateTaskManager(tmSpec) ==
    IF tmSpec.Replicas < 1
    THEN "invalid TaskManager replicas, it must >= 1"
    ELSE IF validatePort(tmSpec.Ports.RPC, "rpc", "taskmanager") # NoError
    THEN validatePort(tmSpec.Ports.RPC, "rpc", "taskmanager")
    ELSE IF validatePort(tmSpec.Ports.Data, "data", "taskmanager") # NoError
    THEN validatePort(tmSpec.Ports.Data, "data", "taskmanager")
    ELSE validatePort(tmSpec.Ports.Query, "query", "taskmanager")

validateCleanupAction(property, value) ==
    IF value \notin {"DeleteCluster", "DeleteTaskManager", "KeepCluster"}
    THEN "invalid " \o property \o ": " \o value
    ELSE NoError

\* jobSpec is a pointer to a JobSpec.  The last message is the code's without
\* the backquotes around cancelRequested.
validateJob(jobSpec) ==
    IF jobSpec = NilPtr THEN NoError
    ELSE LET job == jobSpec[1] IN
    IF job.JarFile = "" THEN "job jarFile is unspecified"
    ELSE IF job.Parallelism = NilPtr THEN "job parallelism is unspecified"
    ELSE IF job.Parallelism[1] < 1 THEN "job parallelism must be >= 1"
    ELSE IF job.RestartPolicy = NilPtr THEN "job restartPolicy is unspecified"
    ELSE IF job.RestartPolicy[1] \notin {"Never", "OnFailure"}
    THEN "invalid job restartPolicy: " \o job.RestartPolicy[1]
    ELSE IF job.CleanupPolicy = NilPtr THEN "job cleanupPolicy is unspecified"
    ELSE IF validateCleanupAction("cleanupPolicy.afterJobSucceeds",
                                  job.CleanupPolicy[1].AfterJobSucceeds) # NoError
    THEN validateCleanupAction("cleanupPolicy.afterJobSucceeds",
                               job.CleanupPolicy[1].AfterJobSucceeds)
    ELSE IF validateCleanupAction("cleanupPolicy.afterJobFails",
                                  job.CleanupPolicy[1].AfterJobFails) # NoError
    THEN validateCleanupAction("cleanupPolicy.afterJobFails",
                               job.CleanupPolicy[1].AfterJobFails)
    ELSE IF job.CancelRequested # NilPtr /\ job.CancelRequested[1]
    THEN "property cancelRequested cannot be set to true for a new job"
    ELSE NoError

\* Every outcome other than NoError leaves ValidateCreate at once: an
\* error by return, a panic by unwinding.
ValidateCreate(c) ==
    IF validateMeta(c.ObjectMeta) # NoError
    THEN validateMeta(c.ObjectMeta)
    ELSE IF validateImage(c.Spec.Image) # NoError
    THEN validateImage(c.Spec.Image)
    ELSE IF validateJobManager(c.Spec.JobManager) # NoError
    THEN validateJobManager(c.Spec.JobManager)
    ELSE IF validateTaskManager(c.Spec.TaskManager) # NoError
    THEN validateTaskManager(c.Spec.TaskManager)
    ELSE validateJob(c.Spec.Job)

----------------------------------------------------------------------------
(* The update path. *)

\* reflect.DeepEqual on two values of the same type: pointers are equal
\* when both are nil or both point to deeply equal values, which is the
\* equality of the sequences modelling them.
\* The memory limit, a resource.Quantity, is modelled by its value in bytes.
DeepEqual(a, b) == a = b

\* checkCancelRequested without the guard against un-cancelling.
checkCancelRequested_NoRestartCheck(old, new_) ==
    IF old.Spec.Job = NilPtr \/ new_.Spec.Job = NilPtr
    THEN [cancelRequested |-> FALSE, err |-> NoError]
    ELSE LET oldCR == old.Spec.Job[1].CancelRequested
             newCR == new_.Spec.Job[1].CancelRequested
             stopJob == /\ (oldCR = NilPtr \/ ~oldCR[1])
                        /\ (newCR # NilPtr /\ newCR[1])
             oldCopy == [old EXCEPT !.Spec.Job[1].CancelRequested = newCR]
         IN [cancelRequested |-> stopJob /\ DeepEqual(new_.Spec, oldCopy.Spec),
             err |-> NoError]

\* checkCancelRequested comparing new with old itself, the copy of old not
\* given the new cancel flag.
checkCancelRequested_NoPatch(old, new_) ==
    IF old.Spec.Job = NilPtr \/ new_.Spec.Job = NilPtr
    THEN [cancelRequested |-> FALSE, err |-> NoError]
    ELSE LET oldCR == old.Spec.Job[1].CancelRequested
             newCR == new_.Spec.Job[1].CancelRequested
             restartJob == /\ (oldCR # NilPtr /\ oldCR[1])
                           /\ (newCR = NilPtr \/ ~newCR[1])
             stopJob == /\ (oldCR = NilPtr \/ ~oldCR[1])
                        /\ (newCR # NilPtr /\ newCR[1])
         IN IF restartJob
            THEN [cancelRequested |-> FALSE,
                  err |-> "updating cancelRequested from true to false is not allowed"]
            ELSE [cancelRequested |-> stopJob /\ DeepEqual(new_.Spec, old.Spec),
                  err |-> NoError]

\* checkCancelRequested reporting every false -> true move of the flag as
\* the cancel transition, whatever else changed.
checkCancelRequested_AnyStop(old, new_) ==
    IF old.Spec.Job = NilPtr \/ new_.Spec.Job = NilPtr
    THEN [cancelRequested |-> FALSE, err |-> NoError]
    ELSE LET oldCR == old.Spec.Job[1].CancelRequested
             newCR == new_.Spec.Job[1].CancelRequested
             restartJob == /\ (oldCR # NilPtr /\ oldCR[1])
                           /\ (newCR = NilPtr \/ ~newCR[1])
             stopJob == /\ (oldCR = NilPtr \/ ~oldCR[1])
                        /\ (newCR # NilPtr /\ newCR[1])
         IN IF restartJob
            THEN [cancelRequested |-> FALSE,
                  err |-> "updating cancelRequested from true to false is not allowed"]
            ELSE [cancelRequested |-> stopJob, err |-> NoError]

\* Result of checkCancelRequested: the pair (bool, error).
checkCancelRequested(old, new_) ==
    IF old.Spec.Job = NilPtr \/ new_.Spec.Job = NilPtr
    THEN [cancelRequested |-> FALSE, err |-> NoError]
    ELSE LET oldCR == old.Spec.Job[1].CancelRequested
             newCR == new_.Spec.Job[1].CancelRequested
             restartJob == /\ (oldCR # NilPtr /\ oldCR[1])
                           /\ (newCR = NilPtr \/ ~newCR[1])
             stopJob == /\ (oldCR = NilPtr \/ ~oldCR[1])
                        /\ (newCR # NilPtr /\ newCR[1])
             oldCopy == [old EXCEPT !.Spec.Job[1].CancelRequested = newCR]
         IN IF restartJob
            THEN [cancelRequested |-> FALSE,
                  err |-> "updating cancelRequested from true to false is not allowed"]
            ELSE IF stopJob
            THEN [cancelRequested |-> DeepEqual(new_.Spec, oldCopy.Spec),
                  err |-> NoError]
            ELSE [cancelRequested |-> FALSE, err |-> NoError]

\* ValidateUpdate without the immutability comparison.
ValidateUpdate_NoImmutability(old, new_) ==
    checkCancelRequested(old, new_).err

\* ValidateUpdate comparing the whole objects, identity included.
ValidateUpdate_WholeObject(old, new_) ==
    LET r == checkCancelRequested(old, new_) IN
    IF r.err # NoError THEN r.err
    ELSE IF r.cancelRequested /\ new_.ObjectMeta = old.ObjectMeta THEN NoError
    ELSE IF ~DeepEqual(new_, old)
    THEN "the cluster properties are not updatable"
    ELSE NoError

ValidateUpdate(old, new_) ==
    LET r == checkCancelRequested(old, new_) IN
    IF r.err # NoError THEN r.err
    ELSE IF r.cancelRequested THEN NoError
    ELSE IF ~DeepEqual(new_.Spec, old.Spec)
    THEN "the cluster properties are not updatable"
    ELSE NoError

----------------------------------------------------------------------------
(* The requests the validator is called with. *)

BaseJob ==
    [JarFile |-> "job.jar",
     Parallelism |-> Ptr(1),
     RestartPolicy |-> Ptr("Never"),
     CleanupPolicy |-> Ptr([AfterJobSucceeds |-> "DeleteCluster",
                            AfterJobFails |-> "KeepCluster"]),
     CancelRequested |-> NilPtr]

\* A cluster that satisfies every rule the create path is documented to
\* enforce: memory limit 1Gi, off-heap minimum 600 (Mi).
BaseCluster ==
    [ObjectMeta |-> [Name |-> "c1", Namespace |-> "default"],
     Spec |->
        [Image |-> [Name |-> "flink:1.8", PullPolicy |-> "Always"],
         JobManager |->
            [Replicas |-> Ptr(1),
             AccessScope |-> "VPC",
             Ports |-> [RPC |-> Ptr(6123), Blob |-> Ptr(6124),
                        Query |-> Ptr(6125), UI |-> Ptr(8081)],
             MemoryOffHeapRatio |-> Ptr(25),
             MemoryOffHeapMin |-> Ptr(600),
             Resources |-> [Limits |-> [Memory |-> 1024 * Mi]]],
         TaskManager |->
            [Replicas |-> 1,
             Ports |-> [RPC |-> Ptr(6122), Data |-> Ptr(6121),
                        Query |-> Ptr(6125)]],
         Job |-> Ptr(BaseJob)]]

\* Values a field of each type takes in the requests of the model.
PortValues == {NilPtr, Ptr(-1), Ptr(0), Ptr(PortFloor), Ptr(PortFloor + 1)}

BoolPtrValues == {NilPtr, Ptr(FALSE), Ptr(TRUE)}

\* The clusters that differ from c in the job alone, in at most one field
\* of it, or in its presence.
JobNeighbours(c) ==
    IF c.Spec.Job = NilPtr
    THEN {[c EXCEPT !.Spec.Job = Ptr(BaseJob)],
          [c EXCEPT !.Spec.Job = Ptr([BaseJob EXCEPT !.CancelRequested = Ptr(TRUE)])]}
    ELSE {[c EXCEPT !.Spec.Job = NilPtr]}
         \cup {[c EXCEPT !.Spec.Job[1].JarFile = v] : v \in {"", "other.jar"}}
         \cup {[c EXCEPT !.Spec.Job[1].Parallelism = v] :
                    v \in {NilPtr, Ptr(0), Ptr(2)}}
         \cup {[c EXCEPT !.Spec.Job[1].RestartPolicy = v] :
                    v \in {NilPtr, Ptr("OnFailure"), Ptr("Always")}}
         \cup {[c EXCEPT !.Spec.Job[1].CleanupPolicy = v] :
                    v \in {NilPtr,
                           Ptr([AfterJobSucceeds |-> "", AfterJobFails |-> "KeepCluster"]),
                           Ptr([AfterJobSucceeds |-> "DeleteTaskManager",
                                AfterJobFails |-> "Restart"])}}
         \cup {[c EXCEPT !.Spec.Job[1].CancelRequested = v] : v \in BoolPtrValues}

\* The clusters that differ from c in at most one field, each field taking
\* values on both sides of every condition the validator tests.
Neighbours(c) ==
    {[c EXCEPT !.ObjectMeta.Name = v] : v \in {"", "c2"}}
    \cup {[c EXCEPT !.ObjectMeta.Namespace = v] : v \in {"", "other"}}
    \cup {[c EXCEPT !.Spec.Image.Name = v] : v \in {"", "flink:1.9"}}
    \cup {[c EXCEPT !.Spec.Image.PullPolicy = v] : v \in {"", "Never", "Sometimes"}}
    \cup {[c EXCEPT !.Spec.JobManager.Replicas = v] : v \in {NilPtr, Ptr(0), Ptr(2)}}
    \cup {[c EXCEPT !.Spec.JobManager.AccessScope = v] : v \in {"", "External"}}
    \cup {[c EXCEPT !.Spec.JobManager.Ports.RPC = v] : v \in PortValues}
    \cup {[c EXCEPT !.Spec.JobManager.Ports.Blob = v] : v \in PortValues}
    \cup {[c EXCEPT !.Spec.JobManager.Ports.Query = v] : v \in PortValues}
    \cup {[c EXCEPT !.Spec.JobManager.Ports.UI = v] : v \in PortValues}
    \cup {[c EXCEPT !.Spec.JobManager.MemoryOffHeapRatio = v] :
                v \in {NilPtr, Ptr(-1), Ptr(0), Ptr(100), Ptr(101)}}
    \cup {[c EXCEPT !.Spec.JobManager.MemoryOffHeapMin = v] :
                v \in {NilPtr, Ptr(1024), Ptr(1025)}}
    \cup {[c EXCEPT !.Spec.JobManager.Resources.Limits.Memory = v] :
                v \in {0, 600 * Mi - 1}}
    \cup {[c EXCEPT !.Spec.TaskManager.Replicas = v] : v \in {-1, 0, 2}}
    \cup {[c EXCEPT !.Spec.TaskManager.Ports.RPC = v] : v \in PortValues}
    \cup {[c EXCEPT !.Spec.TaskManager.Ports.Data = v] : v \in PortValues}
    \cup {[c EXCEPT !.Spec.TaskManager.Ports.Query = v] : v \in PortValues}
    \cup JobNeighbours(c)

\* The clusters that differ from c in at most one field, each field taking
\* one other value; the update path reads the fields only to compare them.
Changes(c) ==
    {[c EXCEPT !.ObjectMeta.Name = "c2"],
     [c EXCEPT !.ObjectMeta.Namespace = "other"],
     [c EXCEPT !.Spec.Image.Name = "flink:1.9"],
     [c EXCEPT !.Spec.JobManager.Replicas = Ptr(2)],
     [c EXCEPT !.Spec.JobManager.Ports.UI = Ptr(PortFloor)],
     [c EXCEPT !.Spec.JobManager.MemoryOffHeapMin = NilPtr],
     [c EXCEPT !.Spec.TaskManager.Replicas = 2],
     [c EXCEPT !.Spec.TaskManager.Ports.Data = NilPtr]}
    \cup JobNeighbours(c)

\* The clusters stored before the first update: with a job whose cancel
\* flag is in each of its three states, without a job, and with a worker
\* replica count the create path refuses.
StoredClusters ==
    {[BaseCluster EXCEPT !.Spec.Job[1].CancelRequested = v] : v \in BoolPtrValues}
    \cup {[BaseCluster EXCEPT !.Spec.Job = NilPtr],
          [BaseCluster EXCEPT !.Spec.TaskManager.Replicas = 0]}

----------------------------------------------------------------------------
(* The create specification: a request is composed from BaseCluster by at *)
(* most MaxEdits single-field changes and handed to ValidateCreate.       *)

InitCreate ==
    /\ cluster = BaseCluster
    /\ createResult = NotCalled
    /\ edits = 0
    /\ pc = "request"
    /\ initial = BaseCluster
    /\ stored = BaseCluster
    /\ new = BaseCluster
    /\ updateResult = NotCalled

EditCreateRequest ==
    /\ pc = "request"
    /\ edits < MaxEdits
    /\ cluster' \in Neighbours(cluster)
    /\ edits' = edits + 1
    /\ UNCHANGED <<createResult, initial, stored, new, updateResult, pc>>

CallValidateCreate ==
    /\ pc = "request"
    /\ createResult' = ValidateCreate(cluster)
    /\ pc' = "created"
    /\ UNCHANGED <<cluster, initial, stored, new, updateResult, edits>>

NextCreate == EditCreateRequest \/ CallValidateCreate

SpecCreate == InitCreate /\ [][NextCreate]_vars

----------------------------------------------------------------------------
(* The update specification: a sequence of update attempts against the   *)
(* stored cluster, each request composed from the stored cluster by at   *)
(* most MaxChanges single-field changes.                                 *)

InitUpdate ==
    /\ stored \in StoredClusters
    /\ initial = stored
    /\ new = stored
    /\ updateResult = NotCalled
    /\ edits = 0
    /\ pc = "request"
    /\ cluster = BaseCluster
    /\ createResult = NotCalled

EditUpdateRequest ==
    /\ pc = "request"
    /\ edits < MaxChanges
    /\ new' \in Changes(new)
    /\ edits' = edits + 1
    /\ UNCHANGED <<cluster, createResult, initial, stored, updateResult, pc>>

CallValidateUpdate ==
    /\ pc = "request"
    /\ updateResult' = ValidateUpdate(stored, new)
    /\ pc' = "updated"
    /\ UNCHANGED <<cluster, createResult, initial, stored, new, edits>>

\* The admission boundary writes the new cluster when the validator
\* accepted it and aborts the write otherwise; the next request starts
\* from what is stored.
Persist ==
    /\ pc = "updated"
    /\ stored' = IF updateResult = NoError THEN new ELSE stored
    /\ new' = stored'
    /\ updateResult' = NotCalled
    /\ edits' = 0
    /\ pc' = "request"
    /\ UNCHANGED <<cluster, createResult, initial>>

NextUpdate == EditUpdateRequest \/ CallValidateUpdate \/ Persist

SpecUpdate == InitUpdate /\ [][NextUpdate]_vars

----------------------------------------------------------------------------
(* Vocabulary of the properties. *)

HasJob(c) == c.Spec.Job # NilPtr

\* The job is attached and its cancel flag is present and true.
CancelTrue(c) ==
    /\ HasJob(c)
    /\ c.Spec.Job[1].CancelRequested # NilPtr
    /\ c.Spec.Job[1].CancelRequested[1]

\* c with the cancel flag of its job, if any, erased.
WithoutCancelFlag(c) ==
    IF HasJob(c) THEN [c EXCEPT !.Spec.Job[1].CancelRequested = NilPtr] ELSE c

IrreversibleCancel == "updating cancelRequested from true to false is not allowed"

SpecImmutable == "the cluster properties are not updatable"

PrematureCancelFlag == "property cancelRequested cannot be set to true for a new job"

InvalidMemoryConfig ==
    {"invalid JobManager memory configuration, MemoryOffHeapMin is not specified",
     "invalid JobManager memory configuration, memory limit must be larger than MemoryOffHeapMin"}

\* ValidateUpdate(stored, new) has returned updateResult.
Updated == pc = "updated"

\* ValidateCreate(cluster) has ended with createResult.
Created == pc = "created"

\* The flag moves from true to false or absent, a job on both sides.
UnCancel(old, new_) ==
    HasJob(old) /\ HasJob(new_) /\ CancelTrue(old) /\ ~CancelTrue(new_)

\* The flag moves from false or absent to true, a job on both sides.
FlagRaised(old, new_) ==
    HasJob(old) /\ HasJob(new_) /\ ~CancelTrue(old) /\ CancelTrue(new_)

\* The permitted cancel transition, nothing else changed in the whole
\* specification, identity included.
CancelTransition(old, new_) ==
    FlagRaised(old, new_) /\ WithoutCancelFlag(old) = WithoutCancelFlag(new_)

\* The permitted cancel transition, nothing else changed in image, manager,
\* worker and job.
CancelTransitionOfSpec(old, new_) ==
    FlagRaised(old, new_) /\ WithoutCancelFlag(old).Spec = WithoutCancelFlag(new_).Spec

----------------------------------------------------------------------------
(* Properties of the update path, checked under SpecUpdate. *)

\* C1: whenever both clusters have a job, the stored cancel flag is true
\* and the new one is false or absent, ValidateUpdate returns the
\* IrreversibleCancel error, whatever else differs.
C1_UnCancelRejected ==
    (Updated /\ UnCancel(stored, new)) => updateResult = IrreversibleCancel

\* An un-cancel request that also changes the image name was rejected as
\* IrreversibleCancel.
C1_Witness ==
    /\ Updated /\ UnCancel(stored, new)
    /\ new.Spec.Image # stored.Spec.Image
    /\ updateResult = IrreversibleCancel

\* C2: whenever the flag moves from false or absent to true and every
\* other field is equal, ValidateUpdate accepts, whether or not the
\* cluster satisfies the rules of the create path.
C2_CancelAccepted ==
    (Updated /\ CancelTransition(stored, new)) => updateResult = NoError

\* A cancel transition was accepted on a cluster whose worker replica count
\* the create path refuses.
C2_Witness ==
    /\ Updated /\ CancelTransition(stored, new)
    /\ validateTaskManager(new.Spec.TaskManager) # NoError
    /\ ValidateCreate(new) # NoError
    /\ updateResult = NoError

\* C3 as stated: outside the permitted cancel transition and the un-cancel
\* transition, ValidateUpdate accepts exactly when the new specification,
\* identity included, is deep-equal to the old one, and rejects every
\* divergence as SpecImmutable.
C3_Original ==
    (Updated /\ ~CancelTransition(stored, new) /\ ~UnCancel(stored, new))
        => /\ updateResult = NoError <=> new = stored
           /\ new # stored => updateResult = SpecImmutable

\* C3 amended: outside the permitted cancel transition (nothing else
\* changed in image, manager, worker and job) and the un-cancel transition,
\* ValidateUpdate accepts exactly when new.Spec is deep-equal to old.Spec,
\* and rejects every divergence of the Spec as SpecImmutable.
C3_ImmutableSpec ==
    (Updated /\ ~CancelTransitionOfSpec(stored, new) /\ ~UnCancel(stored, new))
        => /\ updateResult = NoError <=> new.Spec = stored.Spec
           /\ new.Spec # stored.Spec => updateResult = SpecImmutable

\* The flag was raised together with a changed worker replica count and the
\* update was rejected as SpecImmutable.
C3_Witness ==
    /\ Updated /\ FlagRaised(stored, new)
    /\ new.Spec.TaskManager.Replicas # stored.Spec.TaskManager.Replicas
    /\ WithoutCancelFlag(new).Spec.Job = WithoutCancelFlag(stored).Spec.Job
    /\ updateResult = SpecImmutable

\* C4 as stated: an update that differs from the stored cluster in identity
\* is rejected as SpecImmutable when nothing else differs, and is not
\* accepted when the only other difference is the flag raised.
C4_Original ==
    (Updated /\ new.ObjectMeta # stored.ObjectMeta)
        => /\ new.Spec = stored.Spec => updateResult = SpecImmutable
           /\ CancelTransitionOfSpec(stored, new) => updateResult # NoError

\* C4 amended: the comparison covers image, manager, worker and job but not
\* identity: an update that differs from the stored cluster only in name or
\* namespace is accepted, and so is the cancel transition accompanied by a
\* change of identity alone.
C4_IdentityNotCompared ==
    (Updated /\ new.ObjectMeta # stored.ObjectMeta)
        => /\ new.Spec = stored.Spec => updateResult = NoError
           /\ CancelTransitionOfSpec(stored, new) => updateResult = NoError

\* The flag was raised, the name changed, nothing else did, and the update
\* was accepted.
C4_Witness ==
    /\ Updated /\ CancelTransitionOfSpec(stored, new)
    /\ new.ObjectMeta.Name # stored.ObjectMeta.Name
    /\ updateResult = NoError

\* C5 as stated: over any sequence of update attempts, (a) every field of
\* the stored specification, identity included, other than the cancel flag
\* keeps its initial value, and (b) a stored cancel flag that is true stays
\* true.
C5_Original ==
    /\ [](WithoutCancelFlag(stored) = WithoutCancelFlag(initial))
    /\ [][CancelTrue(stored) => CancelTrue(stored')]_vars

\* C5 amended: over any sequence of update attempts, (a) every field of the
\* stored image, manager, worker and job other than the cancel flag keeps
\* its initial value, and (b) a stored cancel flag that is true stays true
\* (the job is never removed and the flag never returns to false or
\* absent).
C5_StoredSpecKept ==
    /\ [](WithoutCancelFlag(stored).Spec = WithoutCancelFlag(initial).Spec)
    /\ [][CancelTrue(stored) => CancelTrue(stored')]_vars

\* A cancel transition was accepted and stored, and a later attempt to
\* un-cancel was rejected.
C5_Witness ==
    /\ Updated
    /\ HasJob(initial) /\ ~CancelTrue(initial)
    /\ CancelTrue(stored)
    /\ ~CancelTrue(new)
    /\ updateResult # NoError

----------------------------------------------------------------------------
(* The rules of the create path as documented, for the properties below. *)

PortValid(port) == port # NilPtr /\ port[1] > PortFloor

\* Replicas, access scope, the four ports and the off-heap ratio.
ManagerFieldsValid(jm) ==
    /\ jm.Replicas = Ptr(1)
    /\ jm.AccessScope \in {"Cluster", "VPC", "External"}
    /\ PortValid(jm.Ports.RPC) /\ PortValid(jm.Ports.Blob)
    /\ PortValid(jm.Ports.Query) /\ PortValid(jm.Ports.UI)
    /\ jm.MemoryOffHeapRatio # NilPtr
    /\ jm.MemoryOffHeapRatio[1] >= 0 /\ jm.MemoryOffHeapRatio[1] <= 100

\* The off-heap minimum is present and at most floor(limit / 2^20).
OffHeapMinValid(jm) ==
    /\ jm.MemoryOffHeapMin # NilPtr
    /\ jm.MemoryOffHeapMin[1] <= jm.Resources.Limits.Memory \div Mi

IdentityValid(c) == c.ObjectMeta.Name # "" /\ c.ObjectMeta.Namespace # ""

ImageValid(c) ==
    /\ c.Spec.Image.Name # ""
    /\ c.Spec.Image.PullPolicy \in {"Always", "IfNotPresent", "Never"}

ManagerValid(c) ==
    ManagerFieldsValid(c.Spec.JobManager) /\ OffHeapMinValid(c.Spec.JobManager)

WorkerValid(c) ==
    /\ c.Spec.TaskManager.Replicas >= 1
    /\ PortValid(c.Spec.TaskManager.Ports.RPC)
    /\ PortValid(c.Spec.TaskManager.Ports.Data)
    /\ PortValid(c.Spec.TaskManager.Ports.Query)

\* The job, if any, satisfies every rule but the one on the cancel flag.
JobFieldsValid(c) ==
    \/ ~HasJob(c)
    \/ LET job == c.Spec.Job[1] IN
        /\ job.JarFile # ""
        /\ job.Parallelism # NilPtr /\ job.Parallelism[1] >= 1
        /\ job.RestartPolicy # NilPtr
        /\ job.RestartPolicy[1] \in {"Never", "OnFailure"}
        /\ job.CleanupPolicy # NilPtr
        /\ job.CleanupPolicy[1].AfterJobSucceeds
                \in {"DeleteCluster", "DeleteTaskManager", "KeepCluster"}
        /\ job.CleanupPolicy[1].AfterJobFails
                \in {"DeleteCluster", "DeleteTaskManager", "KeepCluster"}

JobValid(c) == JobFieldsValid(c) /\ ~CancelTrue(c)

\* The seven port fields.
PortFields ==
    {<<"jobmanager", "rpc">>, <<"jobmanager", "blob">>, <<"jobmanager", "query">>,
     <<"jobmanager", "ui">>, <<"taskmanager", "rpc">>, <<"taskmanager", "data">>,
     <<"taskmanager", "query">>}

PortOf(c, f) ==
    CASE f = <<"jobmanager", "rpc">> -> c.Spec.JobManager.Ports.RPC
      [] f = <<"jobmanager", "blob">> -> c.Spec.JobManager.Ports.Blob
      [] f = <<"jobmanager", "query">> -> c.Spec.JobManager.Ports.Query
      [] f = <<"jobmanager", "ui">> -> c.Spec.JobManager.Ports.UI
      [] f = <<"taskmanager", "rpc">> -> c.Spec.TaskManager.Ports.RPC
      [] f = <<"taskmanager", "data">> -> c.Spec.TaskManager.Ports.Data
      [] f = <<"taskmanager", "query">> -> c.Spec.TaskManager.Ports.Query

\* The errors the port rule gives for field f.
PortErrors(f) ==
    {validatePort(v, f[2], f[1]) : v \in PortValues} \ {NoError}

\* ValidateCreate returned an error.
Rejected == Created /\ createResult \notin {NoError, NilDereference}

----------------------------------------------------------------------------
(* Properties of the create path, checked under SpecCreate. *)

\* C6: with identity, image, manager replicas, access scope, manager ports
\* and off-heap ratio valid, ValidateCreate returns an InvalidMemoryConfig
\* error exactly when the off-heap minimum is absent or greater than
\* floor(memory limit / 2^20), and a cluster satisfying every rule is
\* accepted.
C6_OffHeapMinRule ==
    (Created /\ IdentityValid(cluster) /\ ImageValid(cluster)
             /\ ManagerFieldsValid(cluster.Spec.JobManager))
        => /\ ~OffHeapMinValid(cluster.Spec.JobManager)
                    <=> createResult \in InvalidMemoryConfig
           /\ (ManagerValid(cluster) /\ WorkerValid(cluster) /\ JobValid(cluster))
                    => createResult = NoError

\* C7: ValidateCreate rejects every cluster whose job has the cancel flag
\* true, with the PrematureCancelFlag error when every other field is
\* valid; a flag that is absent or false never yields that error.
C7_PrematureCancelRejected ==
    Created =>
        /\ CancelTrue(cluster) => Rejected
        /\ (CancelTrue(cluster) /\ IdentityValid(cluster) /\ ImageValid(cluster)
                /\ ManagerValid(cluster) /\ WorkerValid(cluster)
                /\ JobFieldsValid(cluster))
                    => createResult = PrematureCancelFlag
        /\ ~CancelTrue(cluster) => createResult # PrematureCancelFlag

\* C8: whenever one of the seven ports is absent or at most 1024,
\* ValidateCreate returns a validation error; a port above 1024 never
\* yields an error of its own field.
C8_PortRule ==
    Created =>
        /\ (\E f \in PortFields : ~PortValid(PortOf(cluster, f))) => Rejected
        /\ \A f \in PortFields :
                PortValid(PortOf(cluster, f)) => createResult \notin PortErrors(f)

\* C9: the outcome of ValidateCreate is the error of the first sub-check,
\* in the order identity, image, manager, worker, job, whose rule the
\* cluster violates.
C9_FirstFailingCheck ==
    Created =>
        /\ ~IdentityValid(cluster) => createResult = validateMeta(cluster.ObjectMeta)
        /\ (IdentityValid(cluster) /\ ~ImageValid(cluster))
                => createResult = validateImage(cluster.Spec.Image)
        /\ (IdentityValid(cluster) /\ ImageValid(cluster)
                /\ ~ManagerFieldsValid(cluster.Spec.JobManager))
                => createResult = validateJobManager(cluster.Spec.JobManager)
        /\ (IdentityValid(cluster) /\ ImageValid(cluster)
                /\ ManagerFieldsValid(cluster.Spec.JobManager)
                /\ ~OffHeapMinValid(cluster.Spec.JobManager))
                => createResult \in InvalidMemoryConfig
        /\ (IdentityValid(cluster) /\ ImageValid(cluster) /\ ManagerValid(cluster)
                /\ ~WorkerValid(cluster))
                => createResult = validateTaskManager(cluster.Spec.TaskManager)
        /\ (IdentityValid(cluster) /\ ImageValid(cluster) /\ ManagerValid(cluster)
                /\ WorkerValid(cluster) /\ ~JobValid(cluster))
                => createResult = validateJob(cluster.Spec.Job)

\* C10: ValidateCreate ends by returning success or one validation error,
\* never by a panic, whichever optional fields are absent.
C10_NoPanic ==
    Created => createResult # NilDereference

====
